---------------------------- MODULE Spec2Model ----------------------------
(***************************************************************************)
(* The gossip node of src/src/node.rs and its Neighbourhood                *)
(* (src/src/neighbourhood.rs): the reducer step(event) -> [messages], the  *)
(* pending-reply table, the message factory and the suspicion bookkeeping. *)
(*                                                                         *)
(* Spec     one node fed an arbitrary stream of events (any message any    *)
(*          peer can put on the wire, every trigger, the clock).           *)
(* MeshSpec the same node and events, after NumAddr peers registered.      *)
(* NetSpec  several nodes that exchange only the messages they emit,       *)
(*          started by their bootstrap Register triggers.                  *)
(***************************************************************************)
EXTENDS Integers, Sequences, FiniteSets, TLC

(***************************************************************************)
(* Bounds of the model.                                                    *)
(***************************************************************************)
NumAddr == 3        \* addresses 1..NumAddr
MaxCnt == 4         \* the budget of a run of Spec (see Spent)
MaxMesh == 3        \* the budget of a run of MeshSpec once the node has NumAddr neighbours
MaxTime == 11       \* the clock stops advancing here
MaxKnown == 2       \* longest `known` list of a RegisterOk fed to the single node
MaxPeerId == 1      \* ids carried by the messages fed to the single node
NetNodes == 3       \* nodes of the network specification
MaxBoots == 2       \* nodes of the network started with a bootstrap address
MaxReqId == 3       \* ids carried by the requests whose replies are examined
MaxEvents == 3      \* events put on the inbox of the event loop (LoopSpec)
MaxOut == 3         \* messages the node pushes to the TCP sender (SenderSpec)

(***************************************************************************)
(* Program constants.                                                      *)
(***************************************************************************)
STALE_TIMEOUT == 10
U8 == 256

\* The addresses of the peers of the node under study, and its own (self.src).
Addr == 1 .. NumAddr
Self == 0

\* Option<u32>: None is the empty tuple, Some(x) the one-element tuple.
None == << >>
Some(x) == << x >>

(***************************************************************************)
(* Payload and its requires_reply.                                         *)
(***************************************************************************)
Register == [tag |-> "Register"]
RegisterOk(known) == [tag |-> "RegisterOk", known |-> known]
GossipRandom(message) == [tag |-> "GossipRandom", message |-> message]
GossipRandomOk == [tag |-> "GossipRandomOk"]
GossipSuspect(suspects) == [tag |-> "GossipSuspect", suspects |-> suspects]
GossipSuspectOk == [tag |-> "GossipSuspectOk"]

requires_reply_all(payload) == TRUE

requires_reply(payload) ==
    payload.tag \in {"Register", "GossipRandom", "GossipSuspect"}

(***************************************************************************)
(* Suspicion: two u8 counters.  `ovf` records that an addition left the    *)
(* range of u8 during the current step.                                    *)
(***************************************************************************)
DefaultSuspicion == [connection |-> 0, reply |-> 0]

Suspicion_accuse(s, charge) ==
    IF charge = "Connection"
    THEN [s EXCEPT !.connection = (s.connection + 1) % U8]
    ELSE [s EXCEPT !.reply = (s.reply + 1) % U8]

Suspicion_accuse_overflows(s, charge) ==
    IF charge = "Connection" THEN s.connection + 1 >= U8 ELSE s.reply + 1 >= U8

object_both(s, charge) == [connection |-> 0, reply |-> 0]

object(s, charge) ==
    IF charge = "Connection"
    THEN [s EXCEPT !.connection = 0]
    ELSE [s EXCEPT !.reply = 0]

jury_ruling(s) == [connection |-> 3, reply |-> 3]

is_suspicious_above(s) == s.reply > 3 \/ s.connection > 3

is_suspicious(s) == s.reply >= 3 \/ s.connection >= 3

(***************************************************************************)
(* Neighbour and Neighbourhood (a map Address -> Neighbour).               *)
(***************************************************************************)
DefaultNeighbour ==
    [suspicion |-> DefaultSuspicion, suspected_by |-> {}, online |-> TRUE]

EmptyNeighbourhood == [a \in {} |-> DefaultNeighbour]

is_registered_never(nb, neighbour) == FALSE

is_registered(nb, neighbour) == neighbour \in DOMAIN nb

register_keep(nb, neighbour) ==
    [a \in DOMAIN nb \cup {neighbour} |->
        IF a \in DOMAIN nb THEN nb[a] ELSE DefaultNeighbour]

register(nb, neighbour) ==
    [a \in DOMAIN nb \cup {neighbour} |->
        IF a = neighbour THEN DefaultNeighbour ELSE nb[a]]

accuse_insert(nb, neighbour, charge) ==
    [a \in DOMAIN nb \cup {neighbour} |->
        IF a = neighbour
        THEN [(IF a \in DOMAIN nb THEN nb[a] ELSE DefaultNeighbour) EXCEPT
                !.suspicion = Suspicion_accuse(@, charge)]
        ELSE nb[a]]

accuse(nb, neighbour, charge) ==
    IF neighbour \in DOMAIN nb
    THEN [nb EXCEPT ![neighbour].suspicion = Suspicion_accuse(@, charge)]
    ELSE nb

accuse_overflows(nb, neighbour, charge) ==
    /\ neighbour \in DOMAIN nb
    /\ Suspicion_accuse_overflows(nb[neighbour].suspicion, charge)

dismiss_none(nb, neighbour, charge) == nb

dismiss(nb, neighbour, charge) ==
    IF neighbour \in DOMAIN nb
    THEN [nb EXCEPT ![neighbour].suspicion = object(@, charge)]
    ELSE nb

report_half(nb, suspects, accuser) ==
    LET neighbourhood_size == Cardinality(DOMAIN nb)
    IN  [a \in DOMAIN nb |->
            LET by == IF a \in suspects
                      THEN nb[a].suspected_by \cup {accuser}
                      ELSE nb[a].suspected_by \ {accuser}
            IN  IF neighbourhood_size >= 3
                   /\ Cardinality(by) >= neighbourhood_size \div 2
                THEN [suspicion |-> jury_ruling(nb[a].suspicion),
                      suspected_by |-> by, online |-> FALSE]
                ELSE [suspicion |-> nb[a].suspicion,
                      suspected_by |-> by, online |-> TRUE]]

report_counts_self(nb, suspects, accuser) ==
    LET neighbourhood_size == Cardinality(DOMAIN nb)
    IN  [a \in DOMAIN nb |->
            LET by == IF a \in suspects
                      THEN nb[a].suspected_by \cup {accuser}
                      ELSE nb[a].suspected_by \ {accuser}
            IN  IF neighbourhood_size >= 3
                   /\ Cardinality(by) > (neighbourhood_size + 1) \div 2
                THEN [suspicion |-> jury_ruling(nb[a].suspicion),
                      suspected_by |-> by, online |-> FALSE]
                ELSE [suspicion |-> nb[a].suspicion,
                      suspected_by |-> by, online |-> TRUE]]

report_unguarded(nb, suspects, accuser) ==
    LET neighbourhood_size == Cardinality(DOMAIN nb)
    IN  [a \in DOMAIN nb |->
            LET by == IF a \in suspects
                      THEN nb[a].suspected_by \cup {accuser}
                      ELSE nb[a].suspected_by \ {accuser}
            IN  IF Cardinality(by) > neighbourhood_size \div 2
                THEN [suspicion |-> jury_ruling(nb[a].suspicion),
                      suspected_by |-> by, online |-> FALSE]
                ELSE [suspicion |-> nb[a].suspicion,
                      suspected_by |-> by, online |-> TRUE]]

report_sticky(nb, suspects, accuser) ==
    LET neighbourhood_size == Cardinality(DOMAIN nb)
    IN  [a \in DOMAIN nb |->
            LET by == IF a \in suspects
                      THEN nb[a].suspected_by \cup {accuser}
                      ELSE nb[a].suspected_by \ {accuser}
            IN  IF neighbourhood_size >= 3
                   /\ Cardinality(by) > neighbourhood_size \div 2
                THEN [suspicion |-> jury_ruling(nb[a].suspicion),
                      suspected_by |-> by, online |-> FALSE]
                ELSE [suspicion |-> nb[a].suspicion,
                      suspected_by |-> by, online |-> nb[a].online]]

report(nb, suspects, accuser) ==
    LET neighbourhood_size == Cardinality(DOMAIN nb)
    IN  [a \in DOMAIN nb |->
            LET by == IF a \in suspects
                      THEN nb[a].suspected_by \cup {accuser}
                      ELSE nb[a].suspected_by \ {accuser}
            IN  IF neighbourhood_size >= 3
                   /\ Cardinality(by) > neighbourhood_size \div 2
                THEN [suspicion |-> jury_ruling(nb[a].suspicion),
                      suspected_by |-> by, online |-> FALSE]
                ELSE [suspicion |-> nb[a].suspicion,
                      suspected_by |-> by, online |-> TRUE]]

get_suspects(nb) == {a \in DOMAIN nb : is_suspicious(nb[a].suspicion)}

\* The sequences that list every element of S once: a HashMap is iterated in
\* an order the program does not fix.
Orders(S) ==
    {q \in [1 .. Cardinality(S) -> S] : \A i, j \in DOMAIN q : i # j => q[i] # q[j]}

select_gossipers_all(nb) == Orders(DOMAIN nb)

select_gossipers(nb) == Orders({a \in DOMAIN nb : nb[a].online})

get_all_neighbours(nb) == Orders(DOMAIN nb)

(***************************************************************************)
(* Message, Event, Trigger.                                                *)
(***************************************************************************)
Message(src, dst, id, reply_to, payload) ==
    [src |-> src, dst |-> dst, id |-> id, reply_to |-> reply_to, payload |-> payload]

MessageEvent(msg) == [type |-> "Message", msg |-> msg]

TriggerRegister(addr) == [type |-> "Trigger", tag |-> "Register", addr |-> addr]
TriggerGossipRandom == [type |-> "Trigger", tag |-> "GossipRandom"]
TriggerGossipSuspects == [type |-> "Trigger", tag |-> "GossipSuspects"]
TriggerStrike(addr) == [type |-> "Trigger", tag |-> "Strike", addr |-> addr]
TriggerCheckReplies == [type |-> "Trigger", tag |-> "CheckReplies"]

\* format!("Some spicy scoop from {}", self.src)
Scoop(src) == <<"Some spicy scoop from", src>>

(***************************************************************************)
(* Node.  A node value s is [src, cnt, neighbourhood, awaiting_reply, ovf] *)
(* (ovf: a u8 addition overflowed during the step being computed).  cnt is *)
(* a u32; the runs of the model keep it at or below MaxCnt, far from its   *)
(* wrap at 2^32.                                                           *)
(* awaiting_reply maps an id to [dst, sent]; sent is the Instant in        *)
(* seconds.                                                                *)
(***************************************************************************)
EmptyAwaiting == [k \in {} |-> [dst |-> 0, sent |-> 0]]

Node_new(addr) ==
    [src |-> addr, cnt |-> 0, neighbourhood |-> EmptyNeighbourhood,
     awaiting_reply |-> EmptyAwaiting, ovf |-> FALSE]

InsertAwaiting(aw, k, dst, t) ==
    [i \in DOMAIN aw \cup {k} |-> IF i = k THEN [dst |-> dst, sent |-> t] ELSE aw[i]]

RemoveAwaiting(aw, k) == [i \in DOMAIN aw \ {k} |-> aw[i]]

message_id_before_increment(s, dst, reply_to, payload, t) ==
    LET c == s.cnt + 1
    IN  [s |-> [s EXCEPT !.cnt = c,
                         !.awaiting_reply =
                            IF requires_reply(payload)
                            THEN InsertAwaiting(@, s.cnt, dst, t) ELSE @],
         msg |-> Message(s.src, dst, s.cnt, reply_to, payload)]

message_records_all(s, dst, reply_to, payload, t) ==
    LET c == s.cnt + 1
    IN  [s |-> [s EXCEPT !.cnt = c,
                         !.awaiting_reply = InsertAwaiting(@, c, dst, t)],
         msg |-> Message(s.src, dst, c, reply_to, payload)]

message_drops_reply_to(s, dst, reply_to, payload, t) ==
    LET c == s.cnt + 1
    IN  [s |-> [s EXCEPT !.cnt = c,
                         !.awaiting_reply =
                            IF requires_reply(payload)
                            THEN InsertAwaiting(@, c, dst, t) ELSE @],
         msg |-> Message(s.src, dst, c, None, payload)]

message(s, dst, reply_to, payload, t) ==
    LET c == s.cnt + 1
    IN  [s |-> [s EXCEPT !.cnt = c,
                         !.awaiting_reply =
                            IF requires_reply(payload)
                            THEN InsertAwaiting(@, c, dst, t) ELSE @],
         msg |-> Message(s.src, dst, c, reply_to, payload)]

handle_reply_dismiss_always(s, reply_id, src) ==
    IF reply_id = None THEN [s EXCEPT !.neighbourhood = dismiss(@, src, "Reply")]
    ELSE [s EXCEPT !.awaiting_reply = RemoveAwaiting(@, reply_id[1]),
                   !.neighbourhood = dismiss(@, src, "Reply")]

handle_reply_keep_mismatch(s, reply_id, src) ==
    IF reply_id = None THEN s
    ELSE IF reply_id[1] \notin DOMAIN s.awaiting_reply THEN s
    ELSE IF s.awaiting_reply[reply_id[1]].dst # src THEN s
    ELSE [s EXCEPT !.awaiting_reply = RemoveAwaiting(@, reply_id[1]),
                   !.neighbourhood = dismiss(@, src, "Reply")]

handle_reply(s, reply_id, src) ==
    IF reply_id = None THEN s
    ELSE IF reply_id[1] \notin DOMAIN s.awaiting_reply THEN s
    ELSE LET dst == s.awaiting_reply[reply_id[1]].dst
             removed == [s EXCEPT !.awaiting_reply = RemoveAwaiting(@, reply_id[1])]
         IN  IF dst # src THEN removed
             ELSE [removed EXCEPT !.neighbourhood = dismiss(@, src, "Reply")]

\* for dst in gossipers { messages.push(self.message(dst, None, payload)) }
RECURSIVE send_each(_, _, _, _)
send_each(s, dsts, payload, t) ==
    IF dsts = << >> THEN [s |-> s, out |-> << >>]
    ELSE LET r == message(s, Head(dsts), None, payload, t)
             rest == send_each(r.s, Tail(dsts), payload, t)
         IN  [s |-> rest.s, out |-> <<r.msg>> \o rest.out]

RECURSIVE register_each_silent(_, _, _)
register_each_silent(s, to_register, t) ==
    IF to_register = << >> THEN [s |-> s, out |-> << >>]
    ELSE register_each_silent(
            [s EXCEPT !.neighbourhood = register(@, Head(to_register))],
            Tail(to_register), t)

\* for addr in to_register { register(addr); messages.push(message(addr, None, Register)) }
RECURSIVE register_each(_, _, _)
register_each(s, to_register, t) ==
    IF to_register = << >> THEN [s |-> s, out |-> << >>]
    ELSE LET reg == [s EXCEPT !.neighbourhood = register(@, Head(to_register))]
             r == message(reg, Head(to_register), None, Register, t)
             rest == register_each(r.s, Tail(to_register), t)
         IN  [s |-> rest.s, out |-> <<r.msg>> \o rest.out]

gossip(s, t) ==
    {send_each(s, gossipers, GossipRandom(Scoop(s.src)), t) :
        gossipers \in select_gossipers(s.neighbourhood)}

gossip_suspects(s, t) ==
    LET suspects == get_suspects(s.neighbourhood)
    IN  IF suspects = {} THEN {[s |-> s, out |-> << >>]}
        ELSE {send_each(s, gossipers, GossipSuspect(suspects), t) :
                gossipers \in select_gossipers(s.neighbourhood)}

is_stale_at_timeout(sent, t) == t - sent >= STALE_TIMEOUT

\* instant.elapsed().gt(&STALE_TIMEOUT)
is_stale(sent, t) == t - sent > STALE_TIMEOUT

\* for stale in stale_keys { remove(stale); accuse(dst, Reply) }
RECURSIVE check_each(_, _)
check_each(s, stale_keys) ==
    IF stale_keys = {} THEN s
    ELSE LET stale == CHOOSE k \in stale_keys : TRUE
             dst == s.awaiting_reply[stale].dst
         IN  check_each(
                [s EXCEPT !.awaiting_reply = RemoveAwaiting(@, stale),
                          !.ovf = @ \/ accuse_overflows(s.neighbourhood, dst, "Reply"),
                          !.neighbourhood = accuse(@, dst, "Reply")],
                stale_keys \ {stale})

check_replies(s, t) ==
    LET stale_keys == {k \in DOMAIN s.awaiting_reply : is_stale(s.awaiting_reply[k].sent, t)}
    IN  [s |-> check_each(s, stale_keys), out |-> << >>]

handle_trigger(s, trigger, t) ==
    CASE trigger.tag = "Register" ->
            LET r == message([s EXCEPT !.neighbourhood = register(@, trigger.addr)],
                             trigger.addr, None, Register, t)
            IN  {[s |-> r.s, out |-> <<r.msg>>]}
      [] trigger.tag = "GossipRandom" -> gossip(s, t)
      [] trigger.tag = "GossipSuspects" -> gossip_suspects(s, t)
      [] trigger.tag = "Strike" ->
            {[s |-> [s EXCEPT !.ovf = @ \/ accuse_overflows(s.neighbourhood,
                                                            trigger.addr, "Connection"),
                              !.neighbourhood = accuse(@, trigger.addr, "Connection")],
              out |-> << >>]}
      [] trigger.tag = "CheckReplies" -> {check_replies(s, t)}

handle_message(s0, msg, t) ==
    LET s == [s0 EXCEPT !.neighbourhood = dismiss(@, msg.src, "Connection")]
    IN  CASE msg.payload.tag = "Register" ->
                {LET r == message([s EXCEPT !.neighbourhood = register(@, msg.src)],
                                  msg.src, Some(msg.id), RegisterOk(neighbours), t)
                 IN  [s |-> r.s, out |-> <<r.msg>>] :
                    neighbours \in get_all_neighbours(s.neighbourhood)}
          [] msg.payload.tag = "RegisterOk" ->
                LET replied == handle_reply(s, msg.reply_to, msg.src)
                    to_register ==
                        SelectSeq(msg.payload.known,
                                  LAMBDA n : ~is_registered(replied.neighbourhood, n))
                IN  {register_each(replied, to_register, t)}
          [] msg.payload.tag = "GossipRandom" ->
                LET r == message(s, msg.src, Some(msg.id), GossipRandomOk, t)
                IN  {[s |-> r.s, out |-> <<r.msg>>]}
          [] msg.payload.tag = "GossipSuspect" ->
                LET reported == [s EXCEPT !.neighbourhood =
                                    report(@, msg.payload.suspects, msg.src)]
                    r == message(reported, msg.src, Some(msg.id), GossipSuspectOk, t)
                IN  {[s |-> r.s, out |-> <<r.msg>>]}
          [] msg.payload.tag \in {"GossipRandomOk", "GossipSuspectOk"} ->
                {[s |-> handle_reply(s, msg.reply_to, msg.src), out |-> << >>]}

\* The set of results [s, out] step can produce for the event (one per
\* iteration order of the maps it walks).
step(s, event, t) ==
    IF event.type = "Trigger" THEN handle_trigger(s, event, t)
    ELSE handle_message(s, event.msg, t)

(***************************************************************************)
(* State.                                                                  *)
(***************************************************************************)
VARIABLES
    cnt,             \* cnt[n]: Node.cnt of the node at address n
    neighbourhood,   \* neighbourhood[n]: Node.neighbourhood
    awaiting_reply,  \* awaiting_reply[n]: Node.awaiting_reply
    crashed,         \* crashed[n]: step panicked on an integer overflow
    now,             \* the monotonic clock read by Instant::now(), in seconds
    net,             \* messages emitted and not yet delivered (NetSpec)
    boot,            \* boot[n].connect: the --connect address of node n, or None;
                     \*   boot[n].started: its bootstrap trigger, if any, has been handled
    budget,          \* what the run may spend (see Spent); never changes
    sent,            \* history: sent[n] is the set of ids of the messages n emitted
    pending,         \* history: pending[n] maps the id of each reply-requiring message n
                     \*   emitted, not answered since and not found stale, to its emission time
    observed,        \* history: observed[n] is the set of addresses n saw as the sender of a
                     \*   Register, in the known list of a RegisterOk, or in a Register trigger
    reported,        \* history: what the most recent report call of n saw: the size of the
                     \*   neighbourhood and each neighbour's suspected_by after its update
    loop,            \* main_loop of the node at Self and its two channels (LoopSpec)
    sender           \* the TcpSender task of the node at Self (SenderSpec)

vars == <<cnt, neighbourhood, awaiting_reply, crashed, now, net, boot, budget,
          sent, pending, observed, reported, loop, sender>>

NodeAt(n) ==
    [src |-> n, cnt |-> cnt[n], neighbourhood |-> neighbourhood[n],
     awaiting_reply |-> awaiting_reply[n], ovf |-> FALSE]

Range(q) == {q[i] : i \in DOMAIN q}

NoBoot == [connect |-> None, started |-> TRUE]

NoReport == [size |-> 0, by |-> << >>]

IsReport(e) == e.type = "Message" /\ e.msg.payload.tag = "GossipSuspect"

\* handle_message calls report for a GossipSuspect and for nothing else, and
\* nothing after the call touches the neighbourhood.
ReportedAfter(old, e, nb) ==
    IF IsReport(e)
    THEN [size |-> Cardinality(DOMAIN nb), by |-> [a \in DOMAIN nb |-> nb[a].suspected_by]]
    ELSE old

\* main_loop before its first recv: both channels open and empty.  inbox is
\* what rx holds, outbox what was pushed to tx; arrived, handled and failed
\* are history: every event ever put on rx, every event recv returned, and
\* whether a send returned Err.
NoLoop ==
    [pc |-> "recv", inbox |-> << >>, rx_open |-> TRUE, batch |-> << >>,
     outbox |-> << >>, tx_open |-> TRUE,
     arrived |-> << >>, handled |-> << >>, failed |-> FALSE]

\* The TcpSender task before its first recv.  queue is what its rx holds;
\* up is the set of addresses where a listener accepts connections;
\* delivered, strikes and refused are history: the messages written to a
\* peer, the Strike triggers pushed to the node's inbox, and the destinations
\* whose dial failed.
NoSender ==
    [pc |-> "recv", queue |-> << >>, up |-> {},
     delivered |-> << >>, strikes |-> << >>, refused |-> << >>]

InitNodes(nodes) ==
    /\ cnt = [n \in nodes |-> Node_new(n).cnt]
    /\ neighbourhood = [n \in nodes |-> Node_new(n).neighbourhood]
    /\ awaiting_reply = [n \in nodes |-> Node_new(n).awaiting_reply]
    /\ crashed = [n \in nodes |-> FALSE]
    /\ now = 0
    /\ net = {}
    /\ sent = [n \in nodes |-> {}]
    /\ pending = [n \in nodes |-> << >>]
    /\ observed = [n \in nodes |-> {}]
    /\ reported = [n \in nodes |-> NoReport]
    /\ loop = NoLoop
    /\ sender = NoSender

(***************************************************************************)
(* The history variables, kept from the events and the emitted messages    *)
(* alone (they never read the node's state).                               *)
(***************************************************************************)
IsReply(e) ==
    /\ e.type = "Message"
    /\ e.msg.payload.tag \in {"RegisterOk", "GossipRandomOk", "GossipSuspectOk"}

\* The ids the event answers.
Answered(e) == IF IsReply(e) /\ e.msg.reply_to # None THEN {e.msg.reply_to[1]} ELSE {}

\* The ids whose age exceeds STALE_TIMEOUT when the event is CheckReplies.
FoundStale(p, e, t) ==
    IF e.type = "Trigger" /\ e.tag = "CheckReplies"
    THEN {k \in DOMAIN p : t - p[k] > STALE_TIMEOUT}
    ELSE {}

NeedsReply(m) == m.payload.tag \in {"Register", "GossipRandom", "GossipSuspect"}

PendingAfter(p, e, batch, t) ==
    LET gone == Answered(e) \cup FoundStale(p, e, t)
        new == {batch[i].id : i \in {j \in DOMAIN batch : NeedsReply(batch[j])}}
    IN  [k \in (DOMAIN p \ gone) \cup new |-> IF k \in new THEN t ELSE p[k]]

ObservedBy(e) ==
    IF e.type = "Trigger"
    THEN IF e.tag = "Register" THEN {e.addr} ELSE {}
    ELSE IF e.msg.payload.tag = "Register" THEN {e.msg.src}
    ELSE IF e.msg.payload.tag = "RegisterOk" THEN Range(e.msg.payload.known)
    ELSE {}

(***************************************************************************)
(* main_loop: one event is received and step runs on it once; r is the     *)
(* result of step.  An overflowing u8 addition aborts the step in a build  *)
(* with overflow checks and wraps in a build without them.                 *)
(***************************************************************************)
Apply(n, e, r) ==
    /\ ~crashed[n]
    /\ r \in step(NodeAt(n), e, now)
    /\ \E panic \in (IF r.s.ovf THEN BOOLEAN ELSE {FALSE}) :
        IF panic
        THEN /\ crashed' = [crashed EXCEPT ![n] = TRUE]
             /\ UNCHANGED <<cnt, neighbourhood, awaiting_reply, sent, pending, observed,
                            reported>>
        ELSE /\ cnt' = [cnt EXCEPT ![n] = r.s.cnt]
             /\ neighbourhood' = [neighbourhood EXCEPT ![n] = r.s.neighbourhood]
             /\ awaiting_reply' = [awaiting_reply EXCEPT ![n] = r.s.awaiting_reply]
             /\ sent' = [sent EXCEPT ![n] = @ \cup {r.out[i].id : i \in DOMAIN r.out}]
             /\ pending' = [pending EXCEPT ![n] = PendingAfter(@, e, r.out, now)]
             /\ observed' = [observed EXCEPT ![n] = @ \cup ObservedBy(e)]
             /\ reported' = [reported EXCEPT ![n] = ReportedAfter(@, e, r.s.neighbourhood)]
             /\ UNCHANGED crashed

Run(n, e, r) == Apply(n, e, r) /\ UNCHANGED <<loop, sender>>

(***************************************************************************)
(* Spec: the node at Self and everything its inbox can hold.               *)
(***************************************************************************)
PeerIds == 1 .. MaxPeerId
KnownLists == UNION {[1 .. l -> Addr] : l \in 0 .. MaxKnown}

\* The reply_to values fed: absent, every id that is awaited, and one id that
\* is not (the next id the node will use).
ReplyIds ==
    {None} \cup {Some(k) : k \in DOMAIN awaiting_reply[Self] \cup {cnt[Self] + 1}}

RegisterMsgs ==
    {MessageEvent(Message(src, Self, id, None, Register)) :
        src \in Addr, id \in PeerIds}

RegisterOkMsgs ==
    {MessageEvent(Message(src, Self, 1, reply_to, RegisterOk(known))) :
        src \in Addr, reply_to \in ReplyIds, known \in KnownLists}

GossipRandomMsgs ==
    {MessageEvent(Message(src, Self, id, None, GossipRandom(Scoop(src)))) :
        src \in Addr, id \in PeerIds}

GossipSuspectMsgs ==
    {MessageEvent(Message(src, Self, id, None, GossipSuspect(suspects))) :
        src \in Addr, id \in PeerIds, suspects \in SUBSET Addr}

GossipRandomOkMsgs ==
    {MessageEvent(Message(src, Self, 1, reply_to, GossipRandomOk)) :
        src \in Addr, reply_to \in ReplyIds}

GossipSuspectOkMsgs ==
    {MessageEvent(Message(src, Self, 1, reply_to, GossipSuspectOk)) :
        src \in Addr, reply_to \in ReplyIds}

Triggers ==
    {TriggerRegister(addr) : addr \in Addr}
        \cup {TriggerStrike(addr) : addr \in Addr}
        \cup {TriggerGossipRandom, TriggerGossipSuspects, TriggerCheckReplies}

\* Every event the model feeds the node in the current state.
Inbox ==
    RegisterMsgs \cup RegisterOkMsgs \cup GossipRandomMsgs \cup GossipSuspectMsgs
        \cup GossipRandomOkMsgs \cup GossipSuspectOkMsgs \cup Triggers

RECURSIVE SumOver(_, _)
SumOver(f, S) ==
    IF S = {} THEN 0
    ELSE LET x == CHOOSE y \in S : TRUE IN f[x] + SumOver(f, S \ {x})

\* Strikes standing against the neighbours of a node; the 3 that a ruling
\* puts on an offline neighbour are not counted.
Strikes(nb) ==
    SumOver([a \in DOMAIN nb |->
                IF nb[a].online THEN nb[a].suspicion.connection
                ELSE IF nb[a].suspicion.connection > 3
                     THEN nb[a].suspicion.connection - 3 ELSE 0],
            DOMAIN nb)

\* What a run of the model has spent: the messages the node emitted, the
\* strikes standing, and one for a clock that has moved.  A step is taken only
\* if it leaves this at or below the budget.
Spent(c, nb, t) == c + Strikes(nb) + (IF t > 0 THEN 1 ELSE 0)

Feed(e) ==
    /\ \E r \in step(NodeAt(Self), e, now) : Run(Self, e, r)
    /\ Spent(cnt'[Self], neighbourhood'[Self], now) <= budget
    /\ UNCHANGED <<now, net, boot, budget>>

RecvRegister == \E e \in RegisterMsgs : Feed(e)

RecvRegisterOk == \E e \in RegisterOkMsgs : Feed(e)

RecvGossipRandom == \E e \in GossipRandomMsgs : Feed(e)

RecvGossipSuspect == \E e \in GossipSuspectMsgs : Feed(e)

RecvGossipRandomOk == \E e \in GossipRandomOkMsgs : Feed(e)

RecvGossipSuspectOk == \E e \in GossipSuspectOkMsgs : Feed(e)

TrigRegister == \E addr \in Addr : Feed(TriggerRegister(addr))

TrigGossipRandom == Feed(TriggerGossipRandom)

TrigGossipSuspects == Feed(TriggerGossipSuspects)

TrigStrike == \E addr \in Addr : Feed(TriggerStrike(addr))

TrigCheckReplies == Feed(TriggerCheckReplies)

\* Time passes between two events.  The clock is read only to stamp and to
\* age the entries of awaiting_reply, so it is advanced while one is pending.
Advance ==
    /\ awaiting_reply[Self] # EmptyAwaiting
    /\ \E d \in {STALE_TIMEOUT, STALE_TIMEOUT + 1} :
        /\ now + d <= MaxTime
        /\ now' = now + d
    /\ Spent(cnt[Self], neighbourhood[Self], now') <= budget
    /\ UNCHANGED <<cnt, neighbourhood, awaiting_reply, crashed, net, boot, budget,
                   sent, pending, observed, reported, loop, sender>>

Init ==
    /\ InitNodes({Self})
    /\ boot = [n \in {Self} |-> NoBoot]
    /\ budget = MaxCnt

Next ==
    \/ RecvRegister
    \/ RecvRegisterOk
    \/ RecvGossipRandom
    \/ RecvGossipSuspect
    \/ RecvGossipRandomOk
    \/ RecvGossipSuspectOk
    \/ TrigRegister
    \/ TrigGossipRandom
    \/ TrigGossipSuspects
    \/ TrigStrike
    \/ TrigCheckReplies
    \/ Advance

Spec == Init /\ [][Next]_vars

(***************************************************************************)
(* MeshSpec: the same node; every address registers first (one Register    *)
(* message each), then the node is fed as in Spec.                         *)
(***************************************************************************)
Meshed == DOMAIN neighbourhood[Self] = Addr

Join ==
    /\ ~Meshed
    /\ \E src \in Addr \ DOMAIN neighbourhood[Self] :
        Feed(MessageEvent(Message(src, Self, 1, None, Register)))

MeshInit ==
    /\ InitNodes({Self})
    /\ boot = [n \in {Self} |-> NoBoot]
    /\ budget = NumAddr + MaxMesh

MeshNext ==
    \/ Join
    \/ Meshed /\ Next

MeshSpec == MeshInit /\ [][MeshNext]_vars

(***************************************************************************)
(* NetSpec: NetNodes nodes.  Each starts with at most one bootstrap        *)
(* address (--connect) and handles its Register trigger before any other   *)
(* event; every message a node emits is delivered to its dst, in any       *)
(* order.  No ticker fires.                                                *)
(***************************************************************************)
Nodes == 1 .. NetNodes

Bootstrap(n) ==
    /\ ~boot[n].started
    /\ \E r \in step(NodeAt(n), TriggerRegister(boot[n].connect[1]), now) :
        /\ Run(n, TriggerRegister(boot[n].connect[1]), r)
        /\ net' = net \cup Range(r.out)
    /\ boot' = [boot EXCEPT ![n].started = TRUE]
    /\ UNCHANGED <<now, budget>>

Deliver(m) ==
    /\ boot[m.dst].started
    /\ \E r \in step(NodeAt(m.dst), MessageEvent(m), now) :
        /\ Run(m.dst, MessageEvent(m), r)
        /\ net' = (net \ {m}) \cup Range(r.out)
    /\ UNCHANGED <<now, boot, budget>>

NetInit ==
    /\ InitNodes(Nodes)
    /\ \E connect \in [Nodes -> {None} \cup {Some(a) : a \in Nodes}] :
        /\ \A n \in Nodes : connect[n] # Some(n)
        /\ Cardinality({n \in Nodes : connect[n] # None}) <= MaxBoots
        /\ boot = [n \in Nodes |-> [connect |-> connect[n], started |-> connect[n] = None]]
    /\ budget = 0

NetNext ==
    \/ \E n \in Nodes : Bootstrap(n)
    \/ \E m \in net : Deliver(m)

NetSpec == NetInit /\ [][NetNext]_vars

(***************************************************************************)
(* Properties.  Results(e) is what step can return for event e in the      *)
(* current state of the node at Self.                                      *)
(***************************************************************************)
Results(e) == step(NodeAt(Self), e, now)

\* The results of one more event after a result of step.
Results2(s, e) == step([s EXCEPT !.ovf = FALSE], e, now)

\* C1: for one node, over any sequence of events: cnt never decreases and grows
\* by exactly one per emitted message; every emitted id is non-zero and the
\* first one is 1; no two messages of one batch, and no message of a batch and
\* an earlier message, carry the same id.
C1_MonotonicIds ==
    /\ 0 \notin sent[Self]
    /\ \A e \in Inbox : \A r \in Results(e) :
        /\ r.s.cnt = cnt[Self] + Len(r.out)
        /\ \A i \in DOMAIN r.out :
            /\ r.out[i].id # 0
            /\ r.out[i].id \notin sent[Self]
            /\ \A j \in DOMAIN r.out : i # j => r.out[i].id # r.out[j].id
        /\ (sent[Self] = {} /\ r.out # << >>) => r.out[1].id = 1

\* A batch of two messages is emitted by a node that has emitted before.
C1_Witness ==
    /\ sent[Self] # {}
    /\ \E e \in Inbox : \E r \in Results(e) : Len(r.out) >= 2

\* C2: awaiting_reply holds exactly the ids of the reply-requiring messages
\* (Register, GossipRandom, GossipSuspect) emitted and neither answered (a
\* reply carrying that reply_to was processed) nor found stale by CheckReplies,
\* before and after every step; so an id leaves only through such a reply or
\* such a CheckReplies and the id of an Ok message never enters.
C2_AwaitingExact ==
    /\ DOMAIN awaiting_reply[Self] = DOMAIN pending[Self]
    /\ \A e \in Inbox : \A r \in Results(e) :
        /\ DOMAIN r.s.awaiting_reply = DOMAIN PendingAfter(pending[Self], e, r.out, now)
        /\ DOMAIN awaiting_reply[Self] \ DOMAIN r.s.awaiting_reply
              \subseteq Answered(e) \cup FoundStale(pending[Self], e, now)
        /\ \A i \in DOMAIN r.out :
              ~NeedsReply(r.out[i]) => r.out[i].id \notin DOMAIN r.s.awaiting_reply

\* Two ids are awaited, an Ok message was emitted, a reply removes one of the
\* ids and a CheckReplies removes a stale one.
C2_Witness ==
    /\ Cardinality(DOMAIN awaiting_reply[Self]) >= 2
    /\ sent[Self] \ DOMAIN awaiting_reply[Self] # {}
    /\ \E e \in GossipRandomOkMsgs : \E r \in Results(e) :
          DOMAIN r.s.awaiting_reply # DOMAIN awaiting_reply[Self]
    /\ \E r \in Results(TriggerCheckReplies) :
          /\ DOMAIN r.s.awaiting_reply # DOMAIN awaiting_reply[Self]
          /\ DOMAIN r.s.awaiting_reply # {}

Nb == neighbourhood[Self]

\* C3: a neighbour that is offline had, at the most recent report call, a
\* neighbourhood of at least 3 entries and a suspected_by set strictly larger
\* than half of it; and no event other than a GossipSuspect message (the only
\* caller of report) turns an online neighbour, or a new one, offline.
C3_OfflineByQuorum ==
    /\ \A a \in DOMAIN Nb :
        ~Nb[a].online =>
            /\ a \in DOMAIN reported[Self].by
            /\ reported[Self].size >= 3
            /\ 2 * Cardinality(reported[Self].by[a]) > reported[Self].size
    /\ \A e \in Inbox \ GossipSuspectMsgs : \A r \in Results(e) :
        \A a \in DOMAIN r.s.neighbourhood :
            ~r.s.neighbourhood[a].online => (a \in DOMAIN Nb /\ ~Nb[a].online)

\* A neighbour is offline, accused by two of three.
C3_Witness ==
    \E a \in DOMAIN Nb :
        /\ ~Nb[a].online
        /\ Cardinality(Nb[a].suspected_by) = 2
        /\ Cardinality(DOMAIN Nb) = 3

(***************************************************************************)
(* The bootstrap graph of NetSpec: an edge joins n and its --connect       *)
(* address.                                                                *)
(***************************************************************************)
BootEdge(a, b) == boot[a].connect = Some(b) \/ boot[b].connect = Some(a)

RECURSIVE ReachFrom(_)
ReachFrom(S) ==
    LET more == S \cup {b \in Nodes : \E a \in S : BootEdge(a, b)}
    IN  IF more = S THEN S ELSE ReachFrom(more)

BootConnected == ReachFrom({1}) = Nodes

Quiescent == (\A n \in Nodes : boot[n].started) /\ net = {}

\* C4: when the bootstrap Register triggers form a connected graph, every
\* bootstrap trigger was handled first and no Register/RegisterOk is in flight
\* any more, every node's neighbourhood holds every other node.
C4_Converged ==
    (BootConnected /\ Quiescent) =>
        \A n \in Nodes : Nodes \ {n} \subseteq DOMAIN neighbourhood[n]

\* A connected network has gone quiet and some node that was given no
\* bootstrap address knows all the others.
C4_Witness ==
    /\ BootConnected
    /\ Quiescent
    /\ \E n \in Nodes : boot[n].connect = None /\ Nodes \ {n} \subseteq DOMAIN neighbourhood[n]
    /\ \E n \in Nodes : \E a \in DOMAIN neighbourhood[n] :
          boot[n].connect # Some(a) /\ boot[a].connect # Some(n)

MessagesFrom(p) == {e \in Inbox : e.type = "Message" /\ e.msg.src = p}

\* A report that leaves p with a majority of accusers: p is set offline and
\* its counters are set to 3.
RulesAgainst(e, r, p) == IsReport(e) /\ ~r.s.neighbourhood[p].online

\* C5 as stated: after any message from a registered peer p, p's connection
\* counter is 0.
C5_Original ==
    \A p \in DOMAIN Nb : \A e \in MessagesFrom(p) : \A r \in Results(e) :
        r.s.neighbourhood[p].suspicion.connection = 0

\* C5, amended: after any message from a registered peer p, p's connection
\* counter is 0, unless the message is a GossipSuspect whose report leaves p
\* offline: then it is 3.
C5_ConnectionCleared ==
    \A p \in DOMAIN Nb : \A e \in MessagesFrom(p) : \A r \in Results(e) :
        r.s.neighbourhood[p].suspicion.connection
            = IF RulesAgainst(e, r, p) THEN 3 ELSE 0

\* A registered peer with strikes standing sends a message, after which the
\* strikes are gone; and a GossipSuspect from a peer leaves that peer offline.
C5_Witness ==
    /\ \E p \in DOMAIN Nb :
        /\ Nb[p].suspicion.connection > 0
        /\ \E e \in MessagesFrom(p) : \E r \in Results(e) :
              r.s.neighbourhood[p].suspicion.connection = 0
    /\ \E p \in DOMAIN Nb : \E e \in MessagesFrom(p) : \E r \in Results(e) :
          RulesAgainst(e, r, p)

Aw == awaiting_reply[Self]

\* A reply that answers nothing: no reply_to, a reply_to that is not awaited,
\* or one whose entry was sent to somebody else; a RegisterOk carries no
\* addresses.
UnexpectedReplies ==
    {e \in RegisterOkMsgs \cup GossipRandomOkMsgs \cup GossipSuspectOkMsgs :
        /\ e.msg.payload.tag = "RegisterOk" => e.msg.payload.known = << >>
        /\ \/ e.msg.reply_to = None
           \/ e.msg.reply_to[1] \notin DOMAIN Aw
           \/ Aw[e.msg.reply_to[1]].dst # e.msg.src}

\* C6 as stated: an unexpected reply leaves every neighbour's counters,
\* suspected_by and online as they were.
C6_Original ==
    \A e \in UnexpectedReplies : \A r \in Results(e) : r.s.neighbourhood = Nb

\* C6, amended: an unexpected reply leaves every neighbour's reply counter,
\* suspected_by and online as they were, and every connection counter too
\* except the sender's, which is 0 afterwards.
C6_UnexpectedReply ==
    \A e \in UnexpectedReplies : \A r \in Results(e) :
        /\ DOMAIN r.s.neighbourhood = DOMAIN Nb
        /\ \A a \in DOMAIN Nb :
            /\ r.s.neighbourhood[a].suspicion.reply = Nb[a].suspicion.reply
            /\ r.s.neighbourhood[a].suspected_by = Nb[a].suspected_by
            /\ r.s.neighbourhood[a].online = Nb[a].online
            /\ r.s.neighbourhood[a].suspicion.connection
                 = IF a = e.msg.src THEN 0 ELSE Nb[a].suspicion.connection

\* A registered sender with a missed reply and a strike against it answers a
\* message that was sent to somebody else.
C6_Witness ==
    \E e \in UnexpectedReplies :
        /\ e.msg.src \in DOMAIN Nb
        /\ Nb[e.msg.src].suspicion.reply > 0
        /\ Nb[e.msg.src].suspicion.connection > 0
        /\ e.msg.reply_to # None
        /\ e.msg.reply_to[1] \in DOMAIN Aw
        /\ \E r \in Results(e) : e.msg.reply_to[1] \notin DOMAIN r.s.awaiting_reply

\* C7: no RegisterOk in flight lists its addressee in known, no node holds
\* its own address as a key of its neighbourhood, and no message in flight is
\* addressed to its sender.
C7_NoSelfLoops ==
    /\ \A m \in net :
        m.payload.tag = "RegisterOk" => m.dst \notin Range(m.payload.known)
    /\ \A n \in Nodes : n \notin DOMAIN neighbourhood[n]
    /\ \A m \in net : m.dst # m.src

\* C8: every accuser recorded in a suspected_by set is, or was, a key of the
\* neighbourhood.
C8_AccusersKnown ==
    \A a \in DOMAIN Nb : Nb[a].suspected_by \subseteq observed[Self]

Registers(e) == ObservedBy(e) # {}

\* C9: the keys of the neighbourhood are exactly the addresses observed by a
\* Register message, a RegisterOk known list or a Register trigger; a step
\* removes no key, adds exactly the addresses its event registers, and so
\* adds none on any other event.
C9_KeysObserved ==
    /\ DOMAIN Nb = observed[Self]
    /\ \A e \in Inbox : \A r \in Results(e) :
        /\ DOMAIN r.s.neighbourhood = DOMAIN Nb \cup ObservedBy(e)
        /\ ~Registers(e) => DOMAIN r.s.neighbourhood = DOMAIN Nb

\* Some addresses are keys and some are not; a Strike and a GossipSuspect
\* about an unknown address are fed, and a RegisterOk brings a new key.
C9_Witness ==
    /\ DOMAIN Nb # {}
    /\ \E a \in Addr \ DOMAIN Nb :
        /\ \E r \in Results(TriggerStrike(a)) : a \notin DOMAIN r.s.neighbourhood
        /\ \E e \in GossipSuspectMsgs : \E r \in Results(e) :
              a \in e.msg.payload.suspects /\ a \notin DOMAIN r.s.neighbourhood
        /\ \E e \in RegisterOkMsgs : \E r \in Results(e) :
              a \in DOMAIN r.s.neighbourhood

IsTrigger(e, tag) == e.type = "Trigger" /\ e.tag = tag

IsFrom(e, a) == e.type = "Message" /\ e.msg.src = a

\* The event registers a anew: a Register trigger for a, or a Register
\* message from a.
Reregisters(e, a) ==
    \/ IsTrigger(e, "Register") /\ e.addr = a
    \/ IsFrom(e, a) /\ e.msg.payload.tag = "Register"

\* The event is a reply from a to a message that was sent to a.
Answers(e, a) ==
    /\ IsReply(e)
    /\ IsFrom(e, a)
    /\ e.msg.reply_to # None
    /\ e.msg.reply_to[1] \in DOMAIN Aw
    /\ Aw[e.msg.reply_to[1]].dst = a

StaleFor(a) == {k \in DOMAIN Aw : Aw[k].dst = a /\ now - Aw[k].sent > STALE_TIMEOUT}

ConnectionAfter(e, r, a) ==
    IF RulesAgainst(e, r, a) THEN 3
    ELSE IF IsFrom(e, a) \/ Reregisters(e, a) THEN 0
    ELSE IF IsTrigger(e, "Strike") /\ e.addr = a THEN Nb[a].suspicion.connection + 1
    ELSE Nb[a].suspicion.connection

ReplyAfter(e, r, a) ==
    IF RulesAgainst(e, r, a) THEN 3
    ELSE IF Reregisters(e, a) \/ Answers(e, a) THEN 0
    ELSE IF IsTrigger(e, "CheckReplies")
         THEN Nb[a].suspicion.reply + Cardinality(StaleFor(a))
    ELSE Nb[a].suspicion.reply

\* C10: over one event each counter of each neighbour either stays, or grows
\* by accuse (by one on Strike for connection; by the number of stale entries
\* on CheckReplies for reply), or is reset to 0 by dismiss or register, or is
\* set to 3 by a report that finds a majority; and Strike(p) changes nothing
\* but p's connection counter.
C10_CounterFrame ==
    \A e \in Inbox : \A r \in Results(e) :
        /\ \A a \in DOMAIN Nb :
            /\ r.s.neighbourhood[a].suspicion.connection = ConnectionAfter(e, r, a)
            /\ r.s.neighbourhood[a].suspicion.reply = ReplyAfter(e, r, a)
        /\ \A a \in DOMAIN r.s.neighbourhood \ DOMAIN Nb :
            r.s.neighbourhood[a].suspicion = DefaultSuspicion
        /\ IsTrigger(e, "Strike") =>
            /\ r.out = << >>
            /\ r.s.cnt = cnt[Self]
            /\ r.s.awaiting_reply = Aw
            /\ \A a \in DOMAIN Nb :
                /\ r.s.neighbourhood[a].suspicion.reply = Nb[a].suspicion.reply
                /\ r.s.neighbourhood[a].suspected_by = Nb[a].suspected_by
                /\ r.s.neighbourhood[a].online = Nb[a].online
                /\ a # e.addr =>
                     r.s.neighbourhood[a].suspicion.connection = Nb[a].suspicion.connection

\* A message to a neighbour has gone stale and CheckReplies raises its reply
\* counter; a Strike raises its connection counter, a Register trigger resets
\* both, and a report sets the counters of a neighbour it rules against to 3.
C10_Witness ==
    \E a \in DOMAIN Nb :
        /\ StaleFor(a) # {}
        /\ \E r \in Results(TriggerCheckReplies) :
              r.s.neighbourhood[a].suspicion.reply > Nb[a].suspicion.reply
        /\ \E r \in Results(TriggerStrike(a)) :
              r.s.neighbourhood[a].suspicion.connection = Nb[a].suspicion.connection + 1
        /\ \E r \in Results(TriggerRegister(a)) :
              r.s.neighbourhood[a].suspicion = DefaultSuspicion
        /\ \E b \in DOMAIN Nb : \E e \in GossipSuspectMsgs : \E r \in Results(e) :
              /\ Nb[b].online
              /\ RulesAgainst(e, r, b)
              /\ r.s.neighbourhood[b].suspicion = [connection |-> 3, reply |-> 3]

AllOnline(nb) == \A a \in DOMAIN nb : nb[a].online

\* C11: while the neighbourhood has fewer than 3 entries every neighbour is
\* online, in the current state and after any event, GossipSuspect messages
\* from any sender and with any suspect set included.
C11_SmallAllOnline ==
    /\ Cardinality(DOMAIN Nb) < 3 => AllOnline(Nb)
    /\ \A e \in Inbox : \A r \in Results(e) :
        Cardinality(DOMAIN r.s.neighbourhood) < 3 => AllOnline(r.s.neighbourhood)

\* Two neighbours, one of them accused by two senders (more than half of
\* two), and a further GossipSuspect against it is handled.
C11_Witness ==
    /\ Cardinality(DOMAIN Nb) = 2
    /\ \E a \in DOMAIN Nb :
        /\ Cardinality(Nb[a].suspected_by) >= 2
        /\ \E e \in GossipSuspectMsgs : \E r \in Results(e) :
            /\ a \in e.msg.payload.suspects
            /\ Cardinality(r.s.neighbourhood[a].suspected_by) = 3
            /\ r.s.neighbourhood[a].online

\* The node and its neighbours: in a full mesh of N nodes the neighbourhood
\* holds the N - 1 others.
GroupSize(nb) == Cardinality(DOMAIN nb) + 1

Accusers(nb, a) == Cardinality(nb[a].suspected_by)

\* C12 as stated: in a full mesh of N nodes a report sets a neighbour offline
\* only when more than N/2 accusers are recorded against it.
C12_Original ==
    Meshed =>
        \A e \in GossipSuspectMsgs : \A r \in Results(e) :
            \A a \in DOMAIN r.s.neighbourhood :
                ~r.s.neighbourhood[a].online =>
                    2 * Accusers(r.s.neighbourhood, a) > GroupSize(r.s.neighbourhood)

\* C12, amended: the quorum is counted over the neighbourhood map, which
\* holds the accused and not the local node: after a report a neighbour is
\* offline exactly when the map has at least 3 entries and more than half of
\* that number (N - 1 in a full mesh of N) of accusers are recorded.
C12_QuorumOfNeighbourhood ==
    \A e \in GossipSuspectMsgs : \A r \in Results(e) :
        \A a \in DOMAIN r.s.neighbourhood :
            ~r.s.neighbourhood[a].online <=>
                /\ GroupSize(r.s.neighbourhood) - 1 >= 3
                /\ 2 * Accusers(r.s.neighbourhood, a) > GroupSize(r.s.neighbourhood) - 1

\* In the full mesh a neighbour with one accuser is online, and the report of
\* a second accuser sets it offline with just two recorded.
C12_Witness ==
    /\ Meshed
    /\ \E a \in DOMAIN Nb :
        /\ Nb[a].online
        /\ Accusers(Nb, a) = 1
        /\ \E e \in GossipSuspectMsgs : \E r \in Results(e) :
            /\ Accusers(r.s.neighbourhood, a) = 2
            /\ ~r.s.neighbourhood[a].online
            /\ \E b \in DOMAIN Nb : r.s.neighbourhood[b].online

OnlineSet(nb) == {a \in DOMAIN nb : nb[a].online}

Suspected(nb) ==
    {a \in DOMAIN nb : nb[a].suspicion.connection >= 3 \/ nb[a].suspicion.reply >= 3}

\* The batch is one fresh message of the given payload kind per online
\* neighbour and nothing else.
OnePerOnline(batch, kind) ==
    /\ Len(batch) = Cardinality(OnlineSet(Nb))
    /\ {batch[i].dst : i \in DOMAIN batch} = OnlineSet(Nb)
    /\ \A i \in DOMAIN batch :
        /\ batch[i].payload.tag = kind
        /\ batch[i].src = Self
        /\ batch[i].reply_to = None

\* C13: a GossipRandom trigger emits exactly one GossipRandom to each online
\* neighbour and none to an offline one; a GossipSuspects trigger with a
\* non-empty suspect set does the same with GossipSuspect; neither changes the
\* neighbourhood, so an offline neighbour stays a key.
C13_GossipToOnline ==
    /\ \A r \in Results(TriggerGossipRandom) :
        /\ OnePerOnline(r.out, "GossipRandom")
        /\ r.s.neighbourhood = Nb
    /\ Suspected(Nb) # {} =>
        \A r \in Results(TriggerGossipSuspects) :
            /\ OnePerOnline(r.out, "GossipSuspect")
            /\ r.s.neighbourhood = Nb

\* One neighbour was set offline by a report and two are online: both
\* triggers emit two messages, none to the offline neighbour.
C13_Witness ==
    /\ Cardinality(DOMAIN Nb) = 3
    /\ Cardinality(OnlineSet(Nb)) = 2
    /\ reported[Self].size = 3
    /\ Suspected(Nb) # {}
    /\ \E r \in Results(TriggerGossipRandom) : Len(r.out) = 2
    /\ \E r \in Results(TriggerGossipSuspects) :
        /\ Len(r.out) = 2
        /\ \A i \in DOMAIN r.out : r.out[i].dst \in OnlineSet(Nb)

\* C14: a GossipSuspects trigger changes nothing and emits nothing when no
\* neighbour has a counter at 3 or more; otherwise each message it emits
\* carries exactly the neighbours with a counter at 3 or more and goes to every
\* online neighbour, suspects included; a Strike that brings a connection
\* counter to 3 puts the neighbour in that set.
C14_SuspectsGossiped ==
    /\ \A r \in Results(TriggerGossipSuspects) :
        IF Suspected(Nb) = {}
        THEN r.out = << >> /\ r.s = NodeAt(Self)
        ELSE /\ {r.out[i].dst : i \in DOMAIN r.out} = OnlineSet(Nb)
             /\ \A i \in DOMAIN r.out :
                 /\ r.out[i].payload.tag = "GossipSuspect"
                 /\ r.out[i].payload.suspects = Suspected(Nb)
    /\ \A a \in DOMAIN Nb : \A r \in Results(TriggerStrike(a)) :
        Nb[a].suspicion.connection = 2 =>
            \A q \in Results2(r.s, TriggerGossipSuspects) :
                /\ OnlineSet(Nb) # {} => q.out # << >>
                /\ \A i \in DOMAIN q.out : a \in q.out[i].payload.suspects

\* Three strikes stand against an online neighbour that no report has ruled
\* on: the trigger sends it a GossipSuspect that names it; another neighbour
\* is below the threshold and is not named.
C14_Witness ==
    \E a \in DOMAIN Nb :
        /\ Nb[a].suspicion = [connection |-> 3, reply |-> 0]
        /\ Nb[a].online
        /\ \E b \in DOMAIN Nb : b \notin Suspected(Nb)
        /\ \E r \in Results(TriggerGossipSuspects) : \E i \in DOMAIN r.out :
            /\ r.out[i].dst = a
            /\ r.out[i].payload.suspects = {a}

\* The events that register p: a Register trigger for p, a Register message
\* from p.
RegisterEvents(p) ==
    {TriggerRegister(p)} \cup {e \in RegisterMsgs : e.msg.src = p}

\* C15: a Register message from p or a Register(p) trigger leaves p online,
\* with no accuser and both counters 0, whatever its entry was; p is a key
\* and no key is lost; every other neighbour's entry is unchanged.
C15_ReRegister ==
    \A p \in Addr : \A e \in RegisterEvents(p) : \A r \in Results(e) :
        /\ DOMAIN r.s.neighbourhood = DOMAIN Nb \cup {p}
        /\ r.s.neighbourhood[p].online
        /\ r.s.neighbourhood[p].suspected_by = {}
        /\ r.s.neighbourhood[p].suspicion.connection = 0
        /\ r.s.neighbourhood[p].suspicion.reply = 0
        /\ \A a \in DOMAIN Nb \ {p} : r.s.neighbourhood[a] = Nb[a]

\* p is offline with both counters at 3 and two accusers, another neighbour
\* is accused by p; p's Register message and a Register(p) trigger both
\* restore p and keep p's accusation of the other.
C15_Witness ==
    \E p \in DOMAIN Nb :
        /\ ~Nb[p].online
        /\ Nb[p].suspicion = [connection |-> 3, reply |-> 3]
        /\ Cardinality(Nb[p].suspected_by) = 2
        /\ \E a \in DOMAIN Nb \ {p} : p \in Nb[a].suspected_by
        /\ \A e \in RegisterEvents(p) : \E r \in Results(e) :
            /\ r.s.neighbourhood[p].online
            /\ \E a \in DOMAIN Nb \ {p} : p \in r.s.neighbourhood[a].suspected_by

IsOk(payload) == payload.tag \in {"RegisterOk", "GossipRandomOk", "GossipSuspectOk"}

\* The Register, GossipRandom and GossipSuspect messages a peer can send the
\* node, with ids up to MaxReqId.
RequestPayloads(src) ==
    {Register, GossipRandom(Scoop(src))}
        \cup {GossipSuspect(suspects) : suspects \in SUBSET Addr}

Requests ==
    UNION {{MessageEvent(Message(src, Self, id, None, payload)) :
                id \in 1 .. MaxReqId, payload \in RequestPayloads(src)} :
           src \in Addr}

ReplyKind(payload) ==
    CASE payload.tag = "Register" -> "RegisterOk"
      [] payload.tag = "GossipRandom" -> "GossipRandomOk"
      [] payload.tag = "GossipSuspect" -> "GossipSuspectOk"

\* C16: a message the node emits carries a reply_to exactly when its payload
\* is RegisterOk, GossipRandomOk or GossipSuspectOk; a Register, GossipRandom
\* or GossipSuspect message m is answered by exactly one message, of the
\* matching Ok kind, to m.src with reply_to = m.id; a GossipRandomOk or
\* GossipSuspectOk message is answered by nothing.
C16_ReplyTo ==
    /\ \A e \in Inbox \cup Requests : \A r \in Results(e) : \A i \in DOMAIN r.out :
        r.out[i].reply_to # None <=> IsOk(r.out[i].payload)
    /\ \A e \in Requests : \A r \in Results(e) :
        /\ Len(r.out) = 1
        /\ r.out[1].src = Self
        /\ r.out[1].dst = e.msg.src
        /\ r.out[1].reply_to = Some(e.msg.id)
        /\ r.out[1].payload.tag = ReplyKind(e.msg.payload)
    /\ \A e \in GossipRandomOkMsgs \cup GossipSuspectOkMsgs : \A r \in Results(e) :
        r.out = << >>

\* The node has emitted messages of its own (its counter is past the id of a
\* request it now answers), awaits a reply, and a RegisterOk makes it emit
\* requests without reply_to.
C16_Witness ==
    /\ cnt[Self] >= 2
    /\ Aw # EmptyAwaiting
    /\ \E e \in Requests : \E r \in Results(e) :
        /\ e.msg.id = 2
        /\ r.out[1].id > 2
        /\ r.out[1].reply_to = Some(2)
    /\ \E e \in RegisterOkMsgs : \E r \in Results(e) :
        /\ r.out # << >>
        /\ \A i \in DOMAIN r.out : r.out[i].reply_to = None
    /\ \E e \in GossipRandomOkMsgs : e.msg.reply_to # None /\ e.msg.reply_to[1] \in DOMAIN Aw

(***************************************************************************)
(* StrikeSpec: the node registers the peer at address 1 and is then fed    *)
(* Strike triggers for it, any number of them, and replies from it that    *)
(* answer nothing (which dismiss the Connection charge).                   *)
(***************************************************************************)
StrikeRegister ==
    /\ cnt[Self] = 0
    /\ \E r \in Results(TriggerRegister(1)) : Run(Self, TriggerRegister(1), r)
    /\ UNCHANGED <<now, net, boot, budget>>

StrikeAgain ==
    /\ \E a \in DOMAIN Nb :
        \E r \in Results(TriggerStrike(a)) : Run(Self, TriggerStrike(a), r)
    /\ UNCHANGED <<now, net, boot, budget>>

StrikeDismissed ==
    /\ \E a \in DOMAIN Nb :
        LET e == MessageEvent(Message(a, Self, 1, None, GossipRandomOk))
        IN  \E r \in Results(e) : Run(Self, e, r)
    /\ UNCHANGED <<now, net, boot, budget>>

StrikeInit ==
    /\ InitNodes({Self})
    /\ boot = [n \in {Self} |-> NoBoot]
    /\ budget = 0

StrikeNext ==
    \/ StrikeRegister
    \/ StrikeAgain
    \/ StrikeDismissed

StrikeSpec == StrikeInit /\ [][StrikeNext]_vars

\* Counters that saturate at the threshold.
Clamp(s) ==
    [connection |-> IF s.connection > 3 THEN 3 ELSE s.connection,
     reply |-> IF s.reply > 3 THEN 3 ELSE s.reply]

ClampedAccuse(s, charge) ==
    Clamp(IF charge = "Connection"
          THEN [s EXCEPT !.connection = @ + 1]
          ELSE [s EXCEPT !.reply = @ + 1])

\* C17: no step has aborted; a Strike overflows no counter, and afterwards
\* is_suspicious of the 8-bit counters as implemented equals is_suspicious of
\* the counters that saturate at 3, so a neighbour with 3 strikes or more
\* stays in get_suspects under further strikes.
C17_ClampEquivalent ==
    /\ ~crashed[Self]
    /\ \A a \in DOMAIN Nb : \A r \in Results(TriggerStrike(a)) :
        /\ ~r.s.ovf
        /\ is_suspicious(r.s.neighbourhood[a].suspicion)
             = is_suspicious(ClampedAccuse(Clamp(Nb[a].suspicion), "Connection"))
        /\ Nb[a].suspicion.connection >= 3 => a \in get_suspects(r.s.neighbourhood)

(***************************************************************************)
(* LoopSpec: main_loop of the node at Self between its inbox (rx) and its  *)
(* outbox (tx).  The environment puts events on the inbox, drops the       *)
(* inbox's senders and drops the outbox's receiver; the loop awaits in     *)
(* recv and in each send.                                                  *)
(***************************************************************************)
LoopEvents ==
    {TriggerRegister(1), TriggerStrike(1), TriggerGossipRandom,
     MessageEvent(Message(1, Self, 1, None, RegisterOk(<<2, 3>>)))}

\* A sender of the inbox channel puts an event on it.
Enqueue ==
    /\ loop.rx_open
    /\ loop.pc # "done"
    /\ Len(loop.arrived) < MaxEvents
    /\ \E e \in LoopEvents :
        loop' = [loop EXCEPT !.inbox = Append(@, e), !.arrived = Append(@, e)]
    /\ UNCHANGED <<cnt, neighbourhood, awaiting_reply, crashed, now, net, boot, budget,
                   sent, pending, observed, reported, sender>>

\* Every sender of the inbox channel is dropped.
CloseInbox ==
    /\ loop.rx_open
    /\ loop' = [loop EXCEPT !.rx_open = FALSE]
    /\ UNCHANGED <<cnt, neighbourhood, awaiting_reply, crashed, now, net, boot, budget,
                   sent, pending, observed, reported, sender>>

\* The receiver of the outbox channel is dropped.
CloseOutbox ==
    /\ loop.tx_open
    /\ loop' = [loop EXCEPT !.tx_open = FALSE]
    /\ UNCHANGED <<cnt, neighbourhood, awaiting_reply, crashed, now, net, boot, budget,
                   sent, pending, observed, reported, sender>>

\* `break` instead of `return`: the rest of the batch is dropped and the loop
\* goes back to recv.
send_err_breaks(l) == [l EXCEPT !.pc = "recv", !.batch = << >>, !.failed = TRUE]

\* if self.tx.send(msg).await.is_err() { return; }
send_err(l) == [l EXCEPT !.pc = "done", !.failed = TRUE]

\* self.tx.send(msg).await returned Ok: the next message of the batch, or
\* back to recv after the last one.
send_ok(l) ==
    [l EXCEPT !.outbox = Append(@, Head(l.batch)),
              !.batch = Tail(@),
              !.pc = IF Tail(l.batch) = << >> THEN "recv" ELSE "send"]

\* while let Some(event) = self.rx.recv().await { for msg in self.step(event)
LoopRecv ==
    /\ loop.pc = "recv"
    /\ loop.inbox # << >>
    /\ \E r \in Results(Head(loop.inbox)) :
        /\ Apply(Self, Head(loop.inbox), r)
        /\ loop' = [loop EXCEPT !.inbox = Tail(@),
                                !.handled = Append(@, Head(loop.inbox)),
                                !.batch = r.out,
                                !.pc = IF r.out = << >> THEN "recv" ELSE "send"]
    /\ UNCHANGED <<now, net, boot, budget, sender>>

LoopSend ==
    /\ loop.pc = "send"
    /\ loop' = IF loop.tx_open THEN send_ok(loop) ELSE send_err(loop)
    /\ UNCHANGED <<cnt, neighbourhood, awaiting_reply, crashed, now, net, boot, budget,
                   sent, pending, observed, reported, sender>>

\* recv returns None: the channel is closed and drained.
LoopEnd ==
    /\ loop.pc = "recv"
    /\ loop.inbox = << >>
    /\ ~loop.rx_open
    /\ loop' = [loop EXCEPT !.pc = "done"]
    /\ UNCHANGED <<cnt, neighbourhood, awaiting_reply, crashed, now, net, boot, budget,
                   sent, pending, observed, reported, sender>>

LoopInit ==
    /\ InitNodes({Self})
    /\ boot = [n \in {Self} |-> NoBoot]
    /\ budget = 0

LoopNext ==
    \/ Enqueue
    \/ CloseInbox
    \/ CloseOutbox
    \/ LoopRecv
    \/ LoopSend
    \/ LoopEnd

LoopSpec == LoopInit /\ [][LoopNext]_vars

IsPrefix(p, q) == Len(p) <= Len(q) /\ \A i \in DOMAIN p : p[i] = q[i]

\* step run once on each event of a sequence, in order, from a set of
\* [s, out] pairs: the node states it can end in, each with the messages
\* produced so far, in the order produced.
RECURSIVE FoldStep(_, _)
FoldStep(F, events) ==
    IF events = << >> THEN F
    ELSE FoldStep(
            UNION {{[s |-> r.s, out |-> f.out \o r.out] :
                        r \in step(f.s, Head(events), now)} : f \in F},
            Tail(events))

Folded == FoldStep({[s |-> Node_new(Self), out |-> << >>]}, loop.handled)

\* C18: the events received are the events that arrived, in arrival order,
\* none twice and none skipped; the node is in a state step reaches by running
\* once on each of them in that order, and the outbox holds the messages of
\* those steps in the order produced, all of them whenever the loop is back at
\* recv; the loop is stopped only with the inbox closed and drained or after a
\* send found the outbox closed, and after such a send it is stopped, with the
\* rest of the batch not pushed.
C18_EventLoop ==
    /\ loop.arrived = loop.handled \o loop.inbox
    /\ \E f \in Folded :
        /\ f.s = NodeAt(Self)
        /\ IF loop.failed
           THEN IsPrefix(loop.outbox, f.out) /\ Len(loop.outbox) < Len(f.out)
           ELSE f.out = loop.outbox \o loop.batch
    /\ (loop.pc = "recv" /\ ~loop.failed) => loop.batch = << >>
    /\ loop.pc = "send" => loop.batch # << >>
    /\ loop.pc = "done" => (loop.failed \/ (~loop.rx_open /\ loop.inbox = << >>))
    /\ loop.failed => (loop.pc = "done" /\ ~loop.tx_open)

\* A send found the outbox closed in the middle of a batch of two, after an
\* earlier step's message was pushed: the loop is stopped with an event left
\* on the inbox.
C18_Witness ==
    /\ loop.failed
    /\ loop.pc = "done"
    /\ Len(loop.handled) = 2
    /\ Len(loop.outbox) = 2
    /\ Len(loop.batch) = 1
    /\ loop.inbox # << >>

(***************************************************************************)
(* SenderSpec: TcpSender::run.  The node's outbox feeds it messages for    *)
(* any address; listeners come and go.                                     *)
(***************************************************************************)
NodeVars ==
    <<cnt, neighbourhood, awaiting_reply, crashed, now, net, boot, budget,
      sent, pending, observed, reported, loop>>

\* The node pushes a message to the outbox.
Outbound ==
    /\ sender.pc = "recv"
    /\ Len(sender.queue) + Len(sender.delivered) + Len(sender.refused) < MaxOut
    /\ \E dst \in Addr :
        sender' = [sender EXCEPT !.queue =
                      Append(@, Message(Self, dst, 1, None, GossipRandom(Scoop(Self))))]
    /\ UNCHANGED NodeVars

\* A peer starts or stops listening.
Listen ==
    /\ \E a \in Addr :
        sender' = [sender EXCEPT !.up = IF a \in @ THEN @ \ {a} ELSE @ \cup {a}]
    /\ UNCHANGED NodeVars

\* TcpStream::connect(msg.dst).await.unwrap() on Err: the task panics.
dial_failed(s) ==
    [s EXCEPT !.pc = "panicked", !.queue = Tail(@),
              !.refused = Append(@, Head(s.queue).dst)]

\* connect succeeded: the message is written and the next one is awaited.
dial_ok(s) == [s EXCEPT !.delivered = Append(@, Head(s.queue)), !.queue = Tail(@)]

\* while let Some(msg) = self.rx.recv().await { connect(msg.dst) ... }
SenderDial ==
    /\ sender.pc = "recv"
    /\ sender.queue # << >>
    /\ sender' = IF Head(sender.queue).dst \in sender.up
                 THEN dial_ok(sender) ELSE dial_failed(sender)
    /\ UNCHANGED NodeVars

SenderInit ==
    /\ InitNodes({Self})
    /\ boot = [n \in {Self} |-> NoBoot]
    /\ budget = 0

SenderNext ==
    \/ Outbound
    \/ Listen
    \/ SenderDial

SenderSpec == SenderInit /\ [][SenderNext]_vars

\* C19: a dial failure is not fatal to the sender: the task is still serving
\* its queue, and for every dial that failed exactly one Strike for that
\* destination has been pushed to the node's inbox.
C19_DialFailureNonFatal ==
    /\ sender.pc = "recv"
    /\ sender.strikes = [i \in DOMAIN sender.refused |-> TriggerStrike(sender.refused[i])]

(***************************************************************************)
(* CheckReplies                                                            *)
(***************************************************************************)
Stale == {k \in DOMAIN Aw : now - Aw[k].sent > STALE_TIMEOUT}

\* The replies a peer can send to the message with the given id.
LateReplies(src, id) ==
    {MessageEvent(Message(src, Self, 1, <<id>>, payload)) :
        payload \in {GossipRandomOk, GossipSuspectOk}
                        \cup {RegisterOk(known) : known \in KnownLists}}

\* C20: CheckReplies removes from awaiting_reply exactly the entries older
\* than STALE_TIMEOUT and keeps the others as they were, adds to the reply
\* counter of each neighbour the number of removed entries recorded for it
\* and changes nothing else of the neighbourhood, emits no message and uses no
\* id; and a reply to a removed entry, handled afterwards, leaves the reply
\* counter of its sender where CheckReplies put it.
C20_CheckReplies ==
    \A r \in Results(TriggerCheckReplies) :
        /\ DOMAIN r.s.awaiting_reply = DOMAIN Aw \ Stale
        /\ \A k \in DOMAIN Aw \ Stale : r.s.awaiting_reply[k] = Aw[k]
        /\ DOMAIN r.s.neighbourhood = DOMAIN Nb
        /\ \A a \in DOMAIN Nb :
            r.s.neighbourhood[a] =
                [Nb[a] EXCEPT !.suspicion.reply = @ + Cardinality(StaleFor(a))]
        /\ r.out = << >>
        /\ r.s.cnt = cnt[Self]
        /\ \A k \in Stale : \A e \in LateReplies(Aw[k].dst, k) : \A q \in Results2(r.s, e) :
            /\ Aw[k].dst \in DOMAIN Nb
            /\ q.s.neighbourhood[Aw[k].dst].suspicion.reply
                 = r.s.neighbourhood[Aw[k].dst].suspicion.reply

\* Two entries for one neighbour are stale and a third entry is younger:
\* CheckReplies removes the two, raises the neighbour's reply counter by two
\* and keeps the third, and a late reply to a removed one changes no counter.
C20_Witness ==
    \E a \in DOMAIN Nb : \E r \in Results(TriggerCheckReplies) :
        /\ Cardinality(StaleFor(a)) = 2
        /\ DOMAIN Aw \ Stale # {}
        /\ DOMAIN r.s.awaiting_reply = DOMAIN Aw \ Stale
        /\ r.s.neighbourhood[a].suspicion.reply = Nb[a].suspicion.reply + 2
        /\ \E k \in StaleFor(a) : \E e \in LateReplies(a, k) : \E q \in Results2(r.s, e) :
              q.s.neighbourhood[a].suspicion.reply = Nb[a].suspicion.reply + 2

(***************************************************************************)
(* handle_reply                                                            *)
(***************************************************************************)
\* The replies that carry the id of an awaited message.
AwaitedReplies ==
    {e \in RegisterOkMsgs \cup GossipRandomOkMsgs \cup GossipSuspectOkMsgs :
        e.msg.reply_to # None /\ e.msg.reply_to[1] \in DOMAIN Aw}

\* C21: a reply whose reply_to is awaited removes that entry whoever sent it;
\* if the entry's destination is the sender, the sender's reply counter is 0
\* afterwards, otherwise no registered neighbour's reply counter changes; and
\* after a reply from somebody else, the reply of the recorded destination
\* with the same reply_to finds no entry and leaves its reply counter as it
\* was.
C21_ReplyConsumesEntry ==
    \A e \in AwaitedReplies : \A r \in Results(e) :
        LET k == e.msg.reply_to[1]
            src == e.msg.src
            dst == Aw[k].dst
        IN  /\ k \notin DOMAIN r.s.awaiting_reply
            /\ \A j \in DOMAIN Aw \ {k} :
                j \in DOMAIN r.s.awaiting_reply /\ r.s.awaiting_reply[j] = Aw[j]
            /\ dst = src /\ src \in DOMAIN Nb =>
                 r.s.neighbourhood[src].suspicion.reply = 0
            /\ \A a \in DOMAIN Nb :
                 a # src \/ dst # src =>
                    r.s.neighbourhood[a].suspicion.reply = Nb[a].suspicion.reply
            /\ dst # src /\ dst \in DOMAIN Nb =>
                 \A e2 \in LateReplies(dst, k) : \A q \in Results2(r.s, e2) :
                    q.s.neighbourhood[dst].suspicion.reply = Nb[dst].suspicion.reply

\* A message to one neighbour is awaited, both that neighbour and another
\* one have missed a reply, and the other one answers the message: the entry
\* goes, both counters stand, and the genuine reply no longer clears the
\* counter it would have cleared.
C21_Witness ==
    \E e \in AwaitedReplies :
        LET k == e.msg.reply_to[1]
            src == e.msg.src
            dst == Aw[k].dst
        IN  /\ dst # src
            /\ src \in DOMAIN Nb /\ Nb[src].suspicion.reply > 0
            /\ dst \in DOMAIN Nb /\ Nb[dst].suspicion.reply > 0
            /\ \E r \in Results(e) :
                /\ k \notin DOMAIN r.s.awaiting_reply
                /\ r.s.neighbourhood[src].suspicion.reply = Nb[src].suspicion.reply
                /\ \E e2 \in LateReplies(dst, k) : \E q \in Results2(r.s, e2) :
                     q.s.neighbourhood[dst].suspicion.reply = Nb[dst].suspicion.reply
            /\ \E g \in LateReplies(dst, k) : \E q \in Results(g) :
                 q.s.neighbourhood[dst].suspicion.reply = 0

(***************************************************************************)
(* Registration traffic.  NetFairSpec: every task of the runtime that has  *)
(* an event to handle is eventually run, and every message written to a    *)
(* peer is eventually read by it.                                          *)
(***************************************************************************)
NetFairSpec == NetSpec /\ WF_vars(NetNext)

\* The RegisterOk messages in flight to a node that can handle them.
RegisterOksInFlight ==
    {m \in net : m.payload.tag = "RegisterOk" /\ boot[m.dst].started /\ ~crashed[m.dst]}

\* What a node emits on a RegisterOk: Register requests only, each to an
\* address of known that was not a key of its neighbourhood and now is, and no
\* two to the same address.
RegistersOnlyUnknown ==
    \A m \in RegisterOksInFlight : \A r \in step(NodeAt(m.dst), MessageEvent(m), now) :
        /\ \A i \in DOMAIN r.out :
            /\ r.out[i].payload = Register
            /\ r.out[i].reply_to = None
            /\ r.out[i].dst \in Range(m.payload.known)
            /\ r.out[i].dst \notin DOMAIN neighbourhood[m.dst]
            /\ r.out[i].dst \in DOMAIN r.s.neighbourhood
        /\ \A i, j \in DOMAIN r.out : r.out[i].dst = r.out[j].dst => i = j

\* No step takes an address out of a neighbourhood.
KeysKept == \A n \in Nodes : DOMAIN neighbourhood[n] \subseteq DOMAIN neighbourhood'[n]

\* What a node emits at most: one Register to each address (it registers
\* the address before it sends, and keys are kept) and one RegisterOk for
\* each Register sent to it.
EmittedBound == NetNodes + NetNodes

\* C22: without tickers, a node that handles a RegisterOk emits Register
\* requests only, one for each address of known that was not yet a key of its
\* neighbourhood; no address ever leaves a neighbourhood; no node emits more
\* than EmittedBound messages; and eventually every bootstrap trigger has been
\* handled and no message is in flight, for good.
C22_RegistrationTerminates ==
    /\ [](RegistersOnlyUnknown /\ \A n \in Nodes : cnt[n] <= EmittedBound)
    /\ [][KeysKept]_vars
    /\ <>[]Quiescent

\* The network has gone quiet after a node learnt an address from a
\* RegisterOk and sent it a Register: it holds a neighbour that is neither
\* its bootstrap address nor a node bootstrapped to it, and the latter has
\* answered, so the node has emitted more than its bootstrap Register.
C22_Witness ==
    /\ Quiescent
    /\ \E n \in Nodes : \E a \in DOMAIN neighbourhood[n] :
        /\ a # n
        /\ boot[n].connect # None
        /\ boot[n].connect # Some(a)
        /\ boot[a].connect # Some(n)
        /\ n \in DOMAIN neighbourhood[a]
        /\ cnt[n] > 1

(***************************************************************************)
(* Eviction                                                                *)
(***************************************************************************)
Offline == {a \in DOMAIN Nb : ~Nb[a].online}

\* The node after it has handled one GossipSuspect from each of the accusers
\* in turn, all of them carrying the same suspects.
RECURSIVE AfterReports(_, _, _)
AfterReports(s, accusers, suspects) ==
    IF accusers = << >> THEN s
    ELSE LET e == MessageEvent(Message(Head(accusers), Self, 1, None,
                                       GossipSuspect(suspects)))
             r == CHOOSE x \in Results2(s, e) : TRUE
         IN  AfterReports(r.s, Tail(accusers), suspects)

\* C23: whenever a neighbour p is offline, a Register message from p puts it
\* online; and so do, with no Register, reports from accusers of p that no
\* longer name p, as soon as and only when those that are left are no
\* majority of the neighbourhood.  In particular the reports of all of p's
\* accusers put p online.
C23_EvictionIsSoft ==
    \A p \in Offline :
        /\ \A e \in RegisterMsgs : e.msg.src = p =>
              \A r \in Results(e) : r.s.neighbourhood[p].online
        /\ \A R \in SUBSET Nb[p].suspected_by : \A suspects \in SUBSET (Addr \ {p}) :
              R # {} =>
                \A accusers \in Orders(R) :
                    LET after == AfterReports(NodeAt(Self), accusers, suspects)
                    IN  /\ DOMAIN after.neighbourhood = DOMAIN Nb
                        /\ after.neighbourhood[p].online <=>
                             ~(/\ Cardinality(DOMAIN Nb) >= 3
                               /\ 2 * Cardinality(Nb[p].suspected_by \ R)
                                    > Cardinality(DOMAIN Nb))
        /\ Nb[p].suspected_by # {}
        /\ \A accusers \in Orders(Nb[p].suspected_by) :
              AfterReports(NodeAt(Self), accusers, {}).neighbourhood[p].online

\* A neighbour is offline with three accusers among three neighbours: one
\* report that no longer names it leaves it offline, a second one puts it
\* online, and so does its own Register.
C23_Witness ==
    \E p \in Offline :
        /\ Cardinality(DOMAIN Nb) = 3
        /\ Cardinality(Nb[p].suspected_by) = 3
        /\ \E a, b \in Nb[p].suspected_by :
            /\ a # b
            /\ ~AfterReports(NodeAt(Self), <<a>>, {}).neighbourhood[p].online
            /\ AfterReports(NodeAt(Self), <<a, b>>, {}).neighbourhood[p].online
        /\ \E e \in RegisterMsgs : \E r \in Results(e) :
            e.msg.src = p /\ r.s.neighbourhood[p].online

(***************************************************************************)
(* The destinations of awaiting_reply                                      *)
(***************************************************************************)
\* C24: the destination of every awaiting_reply entry is a key of the
\* neighbourhood, now and after any event; so for every stale entry
\* CheckReplies changes the reply counter of a registered neighbour.
C24_AwaitedAreNeighbours ==
    /\ \A k \in DOMAIN Aw : Aw[k].dst \in DOMAIN Nb
    /\ \A e \in Inbox : \A r \in Results(e) :
        \A k \in DOMAIN r.s.awaiting_reply :
            r.s.awaiting_reply[k].dst \in DOMAIN r.s.neighbourhood
    /\ \A k \in Stale : \A r \in Results(TriggerCheckReplies) :
        /\ Aw[k].dst \in DOMAIN r.s.neighbourhood
        /\ r.s.neighbourhood[Aw[k].dst].suspicion.reply # Nb[Aw[k].dst].suspicion.reply

\* Messages to two neighbours are awaited, one neighbour named by a Register
\* trigger and one learnt from a RegisterOk; an entry is stale and
\* CheckReplies accuses its destination.
C24_Witness ==
    /\ \E j, k \in DOMAIN Aw :
        /\ Aw[j].dst # Aw[k].dst
        /\ Aw[j].dst \in observed[Self]
        /\ k \in Stale
        /\ \E r \in Results(TriggerCheckReplies) :
            r.s.neighbourhood[Aw[k].dst].suspicion.reply
                = Nb[Aw[k].dst].suspicion.reply + 1
    /\ \E e \in RegisterOkMsgs : \E r \in Results(e) :
        \E k \in DOMAIN r.s.awaiting_reply \ DOMAIN Aw :
            /\ r.s.awaiting_reply[k].dst \notin DOMAIN Nb
            /\ r.s.awaiting_reply[k].dst \in DOMAIN r.s.neighbourhood

=============================================================================
